---- MODULE Spec2Model ----
(***************************************************************************)
(* Sales-metrics router (src/app/routers/metricas.py): the two cached      *)
(* sales aggregates (vendas_dia, vendas_mes), the uncached inventory       *)
(* valuation (metricas_estoque), the process-wide _metrics_cache and the   *)
(* asyncio lock that guards it.                                            *)
(*                                                                         *)
(* Time is counted in milliseconds.  Every coroutine is cut at its await   *)
(* points (lock entry, db.execute, asyncio.sleep); entering the lock is a  *)
(* step of its own, so the model also covers schedulers that interleave    *)
(* inside "async with".                                                    *)
(***************************************************************************)
EXTENDS Integers, Sequences, FiniteSets, TLC

\* ------------------------------------------------------------------ bounds
NumReq == 2          \* request slots (concurrent HTTP requests)
TickMs == 7500       \* granularity of the wall clock
MaxTicks == 2        \* number of clock ticks explored
StartMs == 1000      \* wall clock at process start (any positive epoch time)

\* --------------------------------------------------------- program values
None == -1                     \* Python None (numbers of the model are >= 0)
_cache_ttl_seconds == 15
MsPerSecond == 1000
SleepMs == 200                 \* asyncio.sleep(0.2)
NoWarning == ""                \* response without a "warning" key

Reqs == 1..NumReq
MaxTime == StartMs + MaxTicks * TickMs
CacheKeys == {"vendas_dia", "vendas_mes"}

\* ------------------------------------------------------------- calendar
\* date.today() / datetime.utcnow() of the server during the run
Hoje == <<2025, 3, 10>>
MesAtual == <<Hoje[1], Hoje[2]>>

IsLeap(y) == (y % 4 = 0 /\ y % 100 # 0) \/ y % 400 = 0

DaysInMonth(y, m) ==
  IF m = 2 THEN (IF IsLeap(y) THEN 29 ELSE 28)
  ELSE IF m \in {4, 6, 9, 11} THEN 30 ELSE 31

\* datetime.date(y, m, d) raises ValueError outside these ranges
ValidDate(y, m, d) ==
  /\ y >= 1 /\ y <= 9999
  /\ m >= 1 /\ m <= 12
  /\ d >= 1 /\ d <= DaysInMonth(y, m)

\* lexicographic order of dates <<y, m, d>>
DateLt(a, b) ==
  \/ a[1] < b[1]
  \/ a[1] = b[1] /\ a[2] < b[2]
  \/ a[1] = b[1] /\ a[2] = b[2] /\ a[3] < b[3]

DateLe(a, b) == a = b \/ DateLt(a, b)

\* A query-string value is modelled by the fields the parser extracts from
\* it: <<>> for a missing or empty parameter, <<y, m, d>> (or <<y, m>>) for
\* text of the right shape, <<0>> for text of any other shape.
NoParam == <<>>
Garbage == <<0>>

\* alvo of vendas_dia: the parsed date, or today when absent or unparsable
ParseDia(data) ==
  IF data = NoParam THEN Hoje
  ELSE IF Len(data) = 3 /\ ValidDate(data[1], data[2], data[3]) THEN data
  ELSE Hoje

\* primeiro_dia of vendas_mes: first day of the parsed month, or of the
\* current month when absent or unparsable
ParseMes(ano_mes) ==
  IF ano_mes = NoParam THEN <<MesAtual[1], MesAtual[2], 1>>
  ELSE IF Len(ano_mes) = 2 /\ ValidDate(ano_mes[1], ano_mes[2], 1)
       THEN <<ano_mes[1], ano_mes[2], 1>>
  ELSE <<MesAtual[1], MesAtual[2], 1>>

\* proximo_mes: first day of the following month (December rolls over)
ProximoMes(primeiro_dia) ==
  <<primeiro_dia[1] + (IF primeiro_dia[2] = 12 THEN 1 ELSE 0),
    IF primeiro_dia[2] = 12 THEN 1 ELSE primeiro_dia[2] + 1,
    1>>

\* date(...) of proximo_mes raises when the year leaves 1..9999
ProximoMesRaises(primeiro_dia) ==
  ~ValidDate(ProximoMes(primeiro_dia)[1], ProximoMes(primeiro_dia)[2], 1)

\* strftime("%Y-%m") of a date: the month it echoes
AnoMes(d) == <<d[1], d[2]>>

\* ------------------------------------------------------------- database
\* Rows of the sales table (read-only here); None is SQL NULL.
Vendas == <<
  [total |-> 1000, desconto |-> 50,   cancelada |-> FALSE, created_at |-> <<2025, 3, 10>>],
  [total |-> 500,  desconto |-> 0,    cancelada |-> TRUE,  created_at |-> <<2025, 3, 10>>],
  [total |-> 120,  desconto |-> None, cancelada |-> FALSE, created_at |-> <<2025, 3, 1>>],
  [total |-> 300,  desconto |-> 10,   cancelada |-> FALSE, created_at |-> <<2025, 2, 28>>],
  [total |-> 200,  desconto |-> 20,   cancelada |-> FALSE, created_at |-> <<2025, 4, 1>>],
  [total |-> 700,  desconto |-> 0,    cancelada |-> TRUE,  created_at |-> <<2025, 3, 9>>]
>>

\* Rows of the product table (read-only here).
Produtos == <<
  [estoque |-> 10, preco_custo |-> 5, preco_venda |-> 8,  ativo |-> TRUE],
  [estoque |-> 3,  preco_custo |-> 20, preco_venda |-> 30, ativo |-> TRUE],
  [estoque |-> 7,  preco_custo |-> 50, preco_venda |-> 90, ativo |-> FALSE]
>>

Coalesce(x, dflt) == IF x = None THEN dflt ELSE x

\* faulty variant: the where clause forgets cancelada == False
InDiaAll(v, alvo) == v.created_at = alvo

\* WHERE cancelada == False AND date(created_at) == alvo
InDia(v, alvo) == ~v.cancelada /\ v.created_at = alvo

\* WHERE cancelada == False AND created_at >= primeiro_dia AND created_at < proximo_mes
InMes(v, primeiro_dia) ==
  /\ ~v.cancelada
  /\ DateLe(primeiro_dia, v.created_at)
  /\ DateLt(v.created_at, ProximoMes(primeiro_dia))

InPeriod(ep, v, alvo) == IF ep = "vendas_dia" THEN InDia(v, alvo) ELSE InMes(v, alvo)

\* SUM(coalesce(total, 0) - coalesce(desconto, 0)) over the first n of rows;
\* None when no row is selected, as SQL SUM over an empty set
RECURSIVE SumOver(_, _, _, _)
SumOver(rows, ep, alvo, n) ==
  IF n = 0 THEN None
  ELSE LET rest == SumOver(rows, ep, alvo, n - 1)
           v == rows[n]
       IN IF InPeriod(ep, v, alvo)
          THEN Coalesce(rest, 0) + (Coalesce(v.total, 0) - Coalesce(v.desconto, 0))
          ELSE rest

\* the same sum over the rows of the sales table
SumVendas(ep, alvo, n) == SumOver(Vendas, ep, alvo, n)

\* result.scalar() of stmt: coalesce(SUM(...), 0.0)
Scalar(ep, alvo) == Coalesce(SumVendas(ep, alvo, Len(Vendas)), 0)

\* faulty variant: float(x) without the "or 0.0" default
FloatNoDefault(x) == x

\* float(x or 0.0)
FloatOrZero(x) == IF x = None \/ x = 0 THEN 0 ELSE x

\* total = float(result.scalar() or 0.0)
QueryTotal(ep, alvo) == FloatOrZero(Scalar(ep, alvo))

\* faulty variant: the where clause forgets ativo == True
RECURSIVE SumProdAll(_, _, _)
SumProdAll(rows, campo, n) ==
  IF n = 0 THEN None
  ELSE Coalesce(SumProdAll(rows, campo, n - 1), 0)
       + rows[n].estoque * (IF campo = "custo" THEN rows[n].preco_custo
                            ELSE rows[n].preco_venda)

\* SUM(estoque * preco) over the active rows among the first n of rows
RECURSIVE SumProdOver(_, _, _)
SumProdOver(rows, campo, n) ==
  IF n = 0 THEN None
  ELSE LET rest == SumProdOver(rows, campo, n - 1)
           p == rows[n]
       IN IF p.ativo
          THEN Coalesce(rest, 0)
               + p.estoque * (IF campo = "custo" THEN p.preco_custo ELSE p.preco_venda)
          ELSE rest

\* the same sum over the rows of the product table
SumProdutos(campo, n) == SumProdOver(Produtos, campo, n)

ValorEstoque == FloatOrZero(Coalesce(SumProdutos("custo", Len(Produtos)), 0))
ValorPotencial == FloatOrZero(Coalesce(SumProdutos("venda", Len(Produtos)), 0))

\* ------------------------------------------------------------------ state
VARIABLES
  cache,    \* _metrics_cache: key -> [value, ts]
  locked,   \* _cache_lock is held
  now,      \* wall clock, _now_ts(), in ms
  req,      \* per request slot: position and locals of the handler coroutine
  out,      \* the response returned last, with the attempts its request made
  prev,     \* per key: the entry that the latest cache write replaced
  lastw,    \* per key: total and time of the latest successful computation stored
  stored,   \* committed rows of the tables vendas and itens_venda
  conn,     \* the script's connection: open or not, and its uncommitted deletes
  script,   \* position and locals of main() of the cleanup script
  antes,    \* the rows stored when the cleanup script started
  despesas,    \* committed rows of the table of expenses
  categorias,  \* committed rows of the table of expense categories
  hreq,        \* per request slot of the expense router: position and locals
  hout         \* the response the expense router returned last, with its request

\* the variables of the cleanup script
cvars == <<stored, conn, script, antes>>

\* the variables of the expense router
dvars == <<despesas, categorias, hreq, hout>>

vars == <<cache, locked, now, req, out, prev, lastw, cvars, dvars>>

\* lines 14-17
InitEntry == [value |-> None, ts |-> 0]

Idle == [pc |-> "idle", ep |-> "", alvo |-> <<>>, attempt |-> 0, total |-> None,
         wake |-> 0, holds |-> FALSE, nq |-> 0, nok |-> 0]

\* a handler that has returned: its locals are gone
Returned == [Idle EXCEPT !.pc = "done"]

NoOut == [ep |-> "", resp |-> <<>>, nq |-> 0, nok |-> 0, src |-> ""]

\* no table loaded, no connection, the script not started
NoRows == [vendas |-> {}, itens |-> {}]
NoConn == [open |-> FALSE, del_itens |-> {}, del_vendas |-> {}]
NotRun == [pc |-> "off", dups |-> <<>>, fila |-> <<>>, total_removed |-> 0,
           committed |-> FALSE, failed |-> FALSE, rerun |-> FALSE]

\* the service after import
MetricsInit ==
  /\ cache = [k \in CacheKeys |-> InitEntry]
  /\ locked = FALSE
  /\ now = StartMs
  /\ req = [r \in Reqs |-> Idle]
  /\ out = NoOut
  /\ prev = [k \in CacheKeys |-> InitEntry]
  /\ lastw = [k \in CacheKeys |-> InitEntry]

\* concurrent requests of the expense router that are followed
NumHandlers == 2
Slots == 1..NumHandlers

\* a JSON null, a missing key as payload.get returns it, an SQL NULL
Null == "null"

\* a dict without keys
NoPayload == [k \in {} |-> Null]

\* a request slot of the expense router before its request arrives, and
\* after its handler returned
HIdle == [pc |-> "idle", op |-> "", id |-> "", payload |-> NoPayload,
          obj |-> NoPayload, dirty |-> {}]
HDone == [HIdle EXCEPT !.pc = "done"]

\* no response yet
NoResp == [op |-> "", status |-> 0, id |-> "", payload |-> NoPayload,
           body |-> NoPayload]

\* the expense router with empty tables and no request
RouterOff ==
  /\ despesas = {}
  /\ categorias = {}
  /\ hreq = [h \in Slots |-> HIdle]
  /\ hout = NoResp

Init ==
  /\ MetricsInit
  /\ stored = NoRows
  /\ conn = NoConn
  /\ script = NotRun
  /\ antes = NoRows
  /\ RouterOff

\* inputs the clients send
DiaInputs == {NoParam, Garbage, <<2025, 3, 9>>, <<2025, 2, 30>>}
MesInputs == {NoParam, Garbage, <<2025, 13>>, <<9999, 12>>}

\* slots are taken in order (they are interchangeable)
CanStart(r) ==
  /\ req[r].pc = "idle"
  /\ IF r = 1 THEN TRUE ELSE req[r - 1].pc # "idle"

\* the period a sales response echoes: str(alvo) / primeiro_dia.strftime("%Y-%m")
Echo(ep, alvo) == IF ep = "vendas_dia" THEN alvo ELSE AnoMes(alvo)

\* the response handed to the client, with the request's attempt counts;
\* src is the return statement that produced it
Emit(r, resp, src) ==
  out' = [ep |-> req[r].ep, resp |-> resp,
          nq |-> req[r].nq, nok |-> req[r].nok, src |-> src]

\* ------------------------------------------------------- vendas_dia / _mes
\* lines 31-34: parse the date, then wait for the lock of line 36
StartDia(r, data) ==
  /\ CanStart(r)
  /\ req' = [req EXCEPT ![r] = [Idle EXCEPT !.pc = "check_lock",
                                            !.ep = "vendas_dia",
                                            !.alvo = ParseDia(data)]]
  /\ UNCHANGED <<cache, locked, now, out, prev, lastw, cvars, dvars>>

\* lines 72-99: parse the month and build the interval; a failure there
\* (proximo_mes out of range) is caught by the outer except of line 119
StartMes(r, ano_mes) ==
  /\ CanStart(r)
  /\ LET primeiro_dia == ParseMes(ano_mes)
     IN req' = [req EXCEPT ![r] =
                  [Idle EXCEPT !.pc = IF ProximoMesRaises(primeiro_dia)
                                      THEN "exc_lock" ELSE "check_lock",
                               !.ep = "vendas_mes",
                               !.alvo = primeiro_dia]]
  /\ UNCHANGED <<cache, locked, now, out, prev, lastw, cvars, dvars>>

LockWaits == {"check_lock", "write_lock", "fb_lock", "exc_lock"}

Inside(pc) ==
  CASE pc = "check_lock" -> "check"
    [] pc = "write_lock" -> "write"
    [] pc = "fb_lock" -> "fb"
    [] pc = "exc_lock" -> "exc"

\* faulty variant: the block is entered without waiting for the lock
AcquireNoWait(r) ==
  /\ req[r].pc \in LockWaits
  /\ locked' = TRUE
  /\ req' = [req EXCEPT ![r].pc = Inside(req[r].pc), ![r].holds = TRUE]
  /\ UNCHANGED <<cache, now, out, prev, lastw, cvars, dvars>>

\* async with _cache_lock: the coroutine enters once the lock is free
Acquire(r) ==
  /\ req[r].pc \in LockWaits
  /\ ~locked
  /\ locked' = TRUE
  /\ req' = [req EXCEPT ![r].pc = Inside(req[r].pc), ![r].holds = TRUE]
  /\ UNCHANGED <<cache, now, out, prev, lastw, cvars, dvars>>

\* faulty variant: the age comparison is reversed
FreshReversed(k) ==
  /\ cache[k].value # None
  /\ now - cache[k].ts > _cache_ttl_seconds * MsPerSecond

\* value is not None and (_now_ts() - ts) < _cache_ttl_seconds
Fresh(k) ==
  /\ cache[k].value # None
  /\ now - cache[k].ts < _cache_ttl_seconds * MsPerSecond

\* faulty variant: the early return does not release the lock
CheckHitKeepsLock(r) ==
  /\ req[r].pc = "check"
  /\ Fresh(req[r].ep)
  /\ Emit(r, [period |-> Echo(req[r].ep, req[r].alvo),
              total |-> cache[req[r].ep].value,
              warning |-> NoWarning], "hit")
  /\ req' = [req EXCEPT ![r] = Returned]
  /\ UNCHANGED <<cache, locked, now, prev, lastw, cvars, dvars>>

\* lines 37-38 / 102-103: serve the cache entry and leave the lock
CheckHit(r) ==
  /\ req[r].pc = "check"
  /\ Fresh(req[r].ep)
  /\ Emit(r, [period |-> Echo(req[r].ep, req[r].alvo),
              total |-> cache[req[r].ep].value,
              warning |-> NoWarning], "hit")
  /\ locked' = FALSE
  /\ req' = [req EXCEPT ![r] = Returned]
  /\ UNCHANGED <<cache, now, prev, lastw, cvars, dvars>>

\* lines 36-52 / 101-107: no fresh entry; leave the lock and issue the first
\* db.execute (attempt 0)
CheckMiss(r) ==
  /\ req[r].pc = "check"
  /\ ~Fresh(req[r].ep)
  /\ locked' = FALSE
  /\ req' = [req EXCEPT ![r].pc = "inflight", ![r].holds = FALSE,
                        ![r].attempt = 0, ![r].nq = 1]
  /\ UNCHANGED <<cache, now, out, prev, lastw, cvars, dvars>>

\* faulty variant: the result of the retry is thrown away and the request
\* falls back as if the retry had failed
DbOkRetryDiscarded(r) ==
  /\ req[r].pc = "inflight"
  /\ req' = IF req[r].attempt = 0
            THEN [req EXCEPT ![r].pc = "write_lock",
                             ![r].total = QueryTotal(req[r].ep, req[r].alvo),
                             ![r].nok = req[r].nok + 1]
            ELSE [req EXCEPT ![r].pc = "fb_lock", ![r].nok = req[r].nok + 1]
  /\ UNCHANGED <<cache, locked, now, out, prev, lastw, cvars, dvars>>

\* lines 52-54 / 107-109: the query returns; total is computed and the
\* coroutine waits for the lock
DbOk(r) ==
  /\ req[r].pc = "inflight"
  /\ req' = [req EXCEPT ![r].pc = "write_lock",
                        ![r].total = QueryTotal(req[r].ep, req[r].alvo),
                        ![r].nok = req[r].nok + 1]
  /\ UNCHANGED <<cache, locked, now, out, prev, lastw, cvars, dvars>>

\* lines 57-62 / 112-116: the query raises; first time sleep 0.2 s, second
\* time go to the fallback
DbFail(r) ==
  /\ req[r].pc = "inflight"
  /\ req' = IF req[r].attempt = 0
            THEN [req EXCEPT ![r].pc = "sleep", ![r].wake = now + SleepMs]
            ELSE [req EXCEPT ![r].pc = "fb_lock"]
  /\ UNCHANGED <<cache, locked, now, out, prev, lastw, cvars, dvars>>

\* faulty variant: the retry does not wait for the sleep to finish
WakeEarly(r) ==
  /\ req[r].pc = "sleep"
  /\ req' = [req EXCEPT ![r].pc = "inflight", ![r].attempt = req[r].attempt + 1,
                        ![r].wake = 0, ![r].nq = req[r].nq + 1]
  /\ UNCHANGED <<cache, locked, now, out, prev, lastw, cvars, dvars>>

\* lines 59-60, 50-52: the sleep is over; continue with attempt 1
Wake(r) ==
  /\ req[r].pc = "sleep"
  /\ now >= req[r].wake
  /\ req' = [req EXCEPT ![r].pc = "inflight", ![r].attempt = req[r].attempt + 1,
                        ![r].wake = 0, ![r].nq = req[r].nq + 1]
  /\ UNCHANGED <<cache, locked, now, out, prev, lastw, cvars, dvars>>

\* faulty variant: a zero total is stored as None ("total or None")
NewEntryFalsy(k, total, t) == [value |-> IF total = 0 THEN None ELSE total, ts |-> t]

\* faulty variant: only the value is assigned, the entry keeps its old ts
NewEntryKeepsTs(k, total, t) == [value |-> total, ts |-> cache[k].ts]

\* {"value": total, "ts": _now_ts()}
NewEntry(k, total, t) == [value |-> total, ts |-> t]

OtherKey(k) == IF k = "vendas_dia" THEN "vendas_mes" ELSE "vendas_dia"

\* faulty variant: the handler stores into the other endpoint's entry
WriteOtherKey(r) ==
  /\ req[r].pc = "write"
  /\ cache' = [cache EXCEPT ![OtherKey(req[r].ep)] = NewEntry(req[r].ep, req[r].total, now)]
  /\ prev' = [prev EXCEPT ![req[r].ep] = cache[req[r].ep]]
  /\ lastw' = [lastw EXCEPT ![req[r].ep] = [value |-> req[r].total, ts |-> now]]
  /\ Emit(r, [period |-> Echo(req[r].ep, req[r].alvo),
              total |-> req[r].total,
              warning |-> NoWarning], "fresh")
  /\ locked' = FALSE
  /\ req' = [req EXCEPT ![r] = Returned]
  /\ UNCHANGED <<now, cvars, dvars>>

\* faulty variant: an entry that is already fresh is not overwritten
WriteFirstWins(r) ==
  /\ req[r].pc = "write"
  /\ cache' = IF Fresh(req[r].ep) THEN cache
              ELSE [cache EXCEPT ![req[r].ep] = NewEntry(req[r].ep, req[r].total, now)]
  /\ prev' = [prev EXCEPT ![req[r].ep] = cache[req[r].ep]]
  /\ lastw' = [lastw EXCEPT ![req[r].ep] = [value |-> req[r].total, ts |-> now]]
  /\ Emit(r, [period |-> Echo(req[r].ep, req[r].alvo),
              total |-> req[r].total,
              warning |-> NoWarning], "fresh")
  /\ locked' = FALSE
  /\ req' = [req EXCEPT ![r] = Returned]
  /\ UNCHANGED <<now, cvars, dvars>>

\* lines 54-56 / 109-111: store the fresh total under the lock and return it
Write(r) ==
  /\ req[r].pc = "write"
  /\ cache' = [cache EXCEPT ![req[r].ep] = NewEntry(req[r].ep, req[r].total, now)]
  /\ prev' = [prev EXCEPT ![req[r].ep] = cache[req[r].ep]]
  /\ lastw' = [lastw EXCEPT ![req[r].ep] = [value |-> req[r].total, ts |-> now]]
  /\ Emit(r, [period |-> Echo(req[r].ep, req[r].alvo),
              total |-> req[r].total,
              warning |-> NoWarning], "fresh")
  /\ locked' = FALSE
  /\ req' = [req EXCEPT ![r] = Returned]
  /\ UNCHANGED <<now, cvars, dvars>>

\* lines 62-64 / 116-118: both attempts failed; return the cached value or 0
Fallback(r) ==
  /\ req[r].pc = "fb"
  /\ Emit(r, [period |-> Echo(req[r].ep, req[r].alvo),
              total |-> FloatOrZero(cache[req[r].ep].value),
              warning |-> "cached"], "fallback")
  /\ locked' = FALSE
  /\ req' = [req EXCEPT ![r] = Returned]
  /\ UNCHANGED <<cache, now, prev, lastw, cvars, dvars>>

\* lines 119-123: unexpected failure in vendas_mes; cached value or 0, echoed
\* with the current month
ExceptFallback(r) ==
  /\ req[r].pc = "exc"
  /\ Emit(r, [period |-> MesAtual,
              total |-> FloatOrZero(cache["vendas_mes"].value),
              warning |-> "cached"], "except")
  /\ locked' = FALSE
  /\ req' = [req EXCEPT ![r] = Returned]
  /\ UNCHANGED <<cache, now, prev, lastw, cvars, dvars>>

\* --------------------------------------------------------- metricas_estoque
\* lines 137-140: issue the cost query
StartEstoque(r) ==
  /\ CanStart(r)
  /\ req' = [req EXCEPT ![r] = [Idle EXCEPT !.pc = "inv_custo", !.ep = "estoque",
                                            !.nq = 1]]
  /\ UNCHANGED <<cache, locked, now, out, prev, lastw, cvars, dvars>>

\* lines 140-141: the cost query returns; issue the sale-price query
EstoqueCustoOk(r) ==
  /\ req[r].pc = "inv_custo"
  /\ req' = [req EXCEPT ![r].pc = "inv_venda", ![r].nq = 2, ![r].nok = 1]
  /\ UNCHANGED <<cache, locked, now, out, prev, lastw, cvars, dvars>>

\* lines 141-151: the second query returns; compute and return the figures
EstoqueVendaOk(r) ==
  /\ req[r].pc = "inv_venda"
  /\ out' = [ep |-> "estoque",
             resp |-> [valor_estoque |-> ValorEstoque,
                       valor_potencial |-> ValorPotencial,
                       lucro_potencial |-> ValorPotencial - ValorEstoque,
                       warning |-> NoWarning],
             nq |-> req[r].nq, nok |-> req[r].nok + 1, src |-> "fresh"]
  /\ req' = [req EXCEPT ![r] = Returned]
  /\ UNCHANGED <<cache, locked, now, prev, lastw, cvars, dvars>>

\* faulty variant: the except branch keeps the figure of a first query that
\* had succeeded
EstoqueFailPartial(r) ==
  /\ req[r].pc \in {"inv_custo", "inv_venda"}
  /\ Emit(r, [valor_estoque |-> IF req[r].nok = 1 THEN ValorEstoque ELSE 0,
              valor_potencial |-> 0, lucro_potencial |-> 0,
              warning |-> "error"], "except")
  /\ req' = [req EXCEPT ![r] = Returned]
  /\ UNCHANGED <<cache, locked, now, prev, lastw, cvars, dvars>>

\* lines 152-159: either query raises; zeros and str(e) as the warning
EstoqueFail(r) ==
  /\ req[r].pc \in {"inv_custo", "inv_venda"}
  /\ Emit(r, [valor_estoque |-> 0, valor_potencial |-> 0, lucro_potencial |-> 0,
              warning |-> "error"], "except")
  /\ req' = [req EXCEPT ![r] = Returned]
  /\ UNCHANGED <<cache, locked, now, prev, lastw, cvars, dvars>>

\* ------------------------------------------------------------------- clock
\* a sleep whose 200 ms have not yet passed
SleepPending == \E r \in Reqs : req[r].pc = "sleep" /\ req[r].wake > now

\* Time passes.  The clock is followed up to MaxTime, and past it only while
\* a sleep is still pending: a timer always fires in the end.
Tick ==
  /\ IF now + TickMs <= MaxTime THEN TRUE ELSE SleepPending
  /\ now' = now + TickMs
  /\ UNCHANGED <<cache, locked, req, out, prev, lastw, cvars, dvars>>

Next ==
  \/ \E r \in Reqs : \E data \in DiaInputs : StartDia(r, data)
  \/ \E r \in Reqs : \E ano_mes \in MesInputs : StartMes(r, ano_mes)
  \/ \E r \in Reqs : StartEstoque(r)
  \/ \E r \in Reqs : Acquire(r)
  \/ \E r \in Reqs : CheckHit(r)
  \/ \E r \in Reqs : CheckMiss(r)
  \/ \E r \in Reqs : DbOk(r)
  \/ \E r \in Reqs : DbFail(r)
  \/ \E r \in Reqs : Wake(r)
  \/ \E r \in Reqs : Write(r)
  \/ \E r \in Reqs : Fallback(r)
  \/ \E r \in Reqs : ExceptFallback(r)
  \/ \E r \in Reqs : EstoqueCustoOk(r)
  \/ \E r \in Reqs : EstoqueVendaOk(r)
  \/ \E r \in Reqs : EstoqueFail(r)
  \/ Tick

Spec == Init /\ [][Next]_vars

\* what a started handler of slot r does next, once it is scheduled, its
\* query has ended or its timer has fired
Continue(r) ==
  \/ Acquire(r) \/ CheckHit(r) \/ CheckMiss(r)
  \/ DbOk(r) \/ DbFail(r) \/ Wake(r)
  \/ Write(r) \/ Fallback(r) \/ ExceptFallback(r)
  \/ EstoqueCustoOk(r) \/ EstoqueVendaOk(r) \/ EstoqueFail(r)

\* The event loop runs every coroutine that is ready, every db.execute ends
\* (returning or raising), and time passes.
Fairness ==
  /\ WF_vars(Tick)
  /\ \A r \in Reqs : WF_vars(Continue(r))

FairSpec == Spec /\ Fairness

\* ================================================================ claims
\* r takes the step: every action changes exactly one slot
Steps(r) == req'[r] # req[r]

IsSales(ep) == ep \in {"vendas_dia", "vendas_mes"}

\* the last response came from a sales endpoint
SalesOut == IsSales(out.ep)

\* C1: when both the first attempt and the retry of a sales request have
\* failed, the request goes to the fallback read and returns a normal
\* response whose total is the cache entry's value at that read (0 when the
\* entry was never set) and whose warning is "cached".
C1_FallbackServesCache ==
  /\ [](\A r \in Reqs :
          (IsSales(req[r].ep) /\ req[r].nq = 2 /\ req[r].nok = 0
             /\ req[r].pc # "inflight")
          => req[r].pc \in {"fb_lock", "fb"})
  /\ [][\A r \in Reqs :
          (req[r].pc = "fb" /\ Steps(r))
          => /\ req[r].nq = 2 /\ req[r].nok = 0
             /\ req'[r].pc = "done"
             /\ out'.ep = req[r].ep
             /\ out'.resp.warning = "cached"
             /\ out'.resp.total = (IF cache[req[r].ep].value = None
                                   THEN 0 ELSE cache[req[r].ep].value)
             /\ out'.resp.total >= 0]_vars

\* C1 witness: a fallback response after two failed attempts that serves a
\* value stored earlier
C1_Witness ==
  /\ out.src = "fallback" /\ out.nq = 2 /\ out.nok = 0
  /\ out.resp.warning = "cached"
  /\ out.resp.total > 0
  /\ out.resp.total = cache[out.ep].value

\* C2: a cache check made while the entry is non-empty and younger than 15 s
\* returns the entry's value, with no warning, no database query by that
\* request, and no change to the cache.
C2_FreshHitNoQuery ==
  [][\A r \in Reqs :
       (/\ req[r].pc = "check"
        /\ Steps(r)
        /\ cache[req[r].ep].value # None
        /\ now - cache[req[r].ep].ts < 15 * 1000)
       => /\ req'[r].pc = "done"
          /\ out'.ep = req[r].ep
          /\ out'.resp.total = cache[req[r].ep].value
          /\ out'.resp.warning = NoWarning
          /\ out'.nq = 0
          /\ cache' = cache]_vars

\* C2 witness: a response served from an entry written some time before
C2_Witness ==
  /\ out.src = "hit" /\ out.nq = 0
  /\ out.resp.total = cache[out.ep].value
  /\ now > cache[out.ep].ts

\* the first day of the period a sales response echoes
EchoStart(ep, period) == IF ep = "vendas_dia" THEN period ELSE <<period[1], period[2], 1>>

\* C3: a sales response without a warning carries the aggregate of the
\* period it echoes.
C3_TotalIsForEchoedPeriod ==
  (SalesOut /\ out.resp.warning = NoWarning)
  => out.resp.total = QueryTotal(out.ep, EchoStart(out.ep, out.resp.period))

\* C4: a sales response carries a warning only if no attempt of its request
\* succeeded; a response from a cache hit or from a successful attempt has
\* none; a successful retry returns the freshly computed total and stores it.
C4_WarningOnlyWithoutSuccess ==
  /\ [](SalesOut
        => /\ (out.resp.warning # NoWarning => out.nok = 0)
           /\ (out.src = "hit" => out.resp.warning = NoWarning)
           /\ (out.src = "fresh" => out.resp.warning = NoWarning /\ out.nok = 1))
  /\ [][\A r \in Reqs :
          (IsSales(req[r].ep) /\ req[r].nq = 2 /\ req[r].nok = 1 /\ Steps(r))
          => /\ req[r].pc \in {"write_lock", "write"}
             /\ (req[r].pc = "write"
                 => /\ out'.resp.total = QueryTotal(req[r].ep, req[r].alvo)
                    /\ out'.resp.warning = NoWarning
                    /\ cache'[req[r].ep].value = out'.resp.total
                    /\ cache'[req[r].ep].ts = now)]_vars

\* C4 witness: a response without warning whose request failed once and then
\* succeeded, stored in the cache
C4_Witness ==
  /\ SalesOut /\ out.src = "fresh" /\ out.nq = 2 /\ out.nok = 1
  /\ out.resp.warning = NoWarning
  /\ cache[out.ep].value = out.resp.total

\* C5: a sales request makes at most two query attempts; the second is made
\* only from the sleep that follows a failed first attempt, not before the
\* 200 ms have passed, and none follows a second failure.
C5_AtMostTwoAttempts ==
  /\ [](\A r \in Reqs : IsSales(req[r].ep) => req[r].nq <= 2)
  /\ [](SalesOut => out.nq <= 2)
  /\ [][\A r \in Reqs :
          /\ (IsSales(req[r].ep) /\ req'[r].pc = "sleep" /\ req[r].pc # "sleep")
             => req'[r].wake = now + 200
          /\ (IsSales(req[r].ep) /\ req'[r].nq > req[r].nq /\ req[r].nq >= 1)
             => /\ req[r].nq = 1 /\ req[r].nok = 0
                /\ req[r].pc = "sleep"
                /\ now >= req[r].wake
                /\ req'[r].nq = 2]_vars

\* C5 witness: the second attempt of a request is in flight
C5_Witness ==
  \E r \in Reqs : IsSales(req[r].ep) /\ req[r].pc = "inflight" /\ req[r].nq = 2

\* C6: an entry's value is None only while no successful computation for its
\* key has been stored; a value that is not None is never cleared, only
\* replaced by another number.
C6_ValueNeverCleared ==
  /\ [](\A k \in CacheKeys :
          (out.ep = k /\ out.src = "fresh") => cache[k].value # None)
  /\ [][\A k \in CacheKeys :
          /\ (cache[k].value # None => cache'[k].value # None)
          /\ (cache'[k] # cache[k] => cache'[k].value >= 0)]_vars

\* C6 witness: an entry whose value replaced an earlier value
C6_Witness ==
  \E k \in CacheKeys :
    cache[k].value # None /\ prev[k].value # None /\ cache[k] # prev[k]

\* C7: a step changes a cache entry only if it is the write of a request
\* whose query succeeded, and then only the entry of that request's own
\* endpoint; every other step leaves both entries as they are.
C7_OnlyOwnWriteChangesCache ==
  [][\A k \in CacheKeys :
       cache'[k] # cache[k]
       => \E r \in Reqs :
            /\ req[r].pc = "write" /\ req[r].ep = k /\ req[r].nok >= 1
            /\ req'[r].pc = "done"
            /\ \A j \in CacheKeys \ {k} : cache'[j] = cache[j]]_vars

\* C7 witness: the daily entry is written, the monthly entry still initial,
\* and an inventory request has returned since
C7_Witness ==
  /\ cache["vendas_dia"].value # None
  /\ cache["vendas_mes"] = InitEntry
  /\ out.ep = "estoque"

Holders == {r \in Reqs : req[r].holds}

\* C8: at most one request is inside the lock; the lock is held exactly when
\* some request is inside; a request inside is at a cache read or write, never
\* at a query in flight or in the retry sleep; every step that reads or
\* writes the cache is taken by the request inside the lock.
C8_CacheOnlyUnderLock ==
  /\ [](/\ Cardinality(Holders) <= 1
        /\ (locked <=> Holders # {})
        /\ \A r \in Reqs :
             /\ (req[r].holds => req[r].pc \in {"check", "write", "fb", "exc"})
             /\ (req[r].pc \in {"inflight", "sleep", "inv_custo", "inv_venda"}
                 => ~req[r].holds))
  /\ [][\A r \in Reqs :
          (Steps(r) /\ (cache' # cache \/ req[r].pc \in {"check", "write", "fb", "exc"}))
          => (req[r].holds /\ locked /\ Holders = {r})]_vars

\* C8 witness: one request is inside the lock while another waits for it
C8_Witness ==
  \E r1, r2 \in Reqs :
     /\ req[r1].holds
     /\ req[r2].pc \in LockWaits

\* C9: a write stores the writer's own total with the time of the write,
\* whatever the entry held before, so of two racing requests the one that
\* writes last determines the entry.
C9_LastWriterWins ==
  [][\A r \in Reqs :
       (req[r].pc = "write" /\ Steps(r))
       => /\ cache'[req[r].ep] = [value |-> req[r].total, ts |-> now]
          /\ prev'[req[r].ep] = cache[req[r].ep]]_vars

\* C9 witness: two writes to one key less than 15 s apart, with different
\* totals; the second writer was past its cache check before the first wrote
\* (otherwise it would have been served the fresh entry), so both queried
C9_Witness ==
  \E k \in CacheKeys :
    /\ prev[k].value # None
    /\ cache[k].value # prev[k].value
    /\ cache[k].ts - prev[k].ts < 15 * 1000
    /\ cache[k] = lastw[k]

\* C10: an entry is always either the initial pair or the value and time
\* stored together by the latest write; a value that is not None never stands
\* with the initial ts of 0.
C10_ValueAndTsFromOneWrite ==
  \A k \in CacheKeys :
    /\ cache[k].value = lastw[k].value
    /\ cache[k].ts = lastw[k].ts
    /\ (cache[k].value = None <=> cache[k].ts = 0)

\* C10 witness: an entry written twice at different times holds the second pair
C10_Witness ==
  \E k \in CacheKeys :
    /\ prev[k].value # None
    /\ cache[k].ts > prev[k].ts
    /\ cache[k].value # prev[k].value

\* C11: under fair scheduling every sales request that has started returns
\* in the end; a sales response always carries a number as its total; the
\* lock is released on every path, so it is never left held once the
\* handlers have returned.
C11_EveryRequestReturns ==
  /\ \A r \in Reqs :
       (IsSales(req[r].ep) /\ req[r].pc # "done") ~> (req[r].pc = "done")
  /\ [](SalesOut => out.resp.total >= 0)
  /\ []((\A r \in Reqs : req[r].pc \in {"idle", "done"}) => ~locked)

\* C11 witness: every slot has returned, the last one through the early
\* return of a cache hit, and the lock is free
C11_Witness ==
  /\ \A r \in Reqs : req[r].pc = "done"
  /\ SalesOut /\ out.src = "hit" /\ out.resp.total >= 0
  /\ ~locked

\* ------------------------------------------------ requests with their input
\* The same handlers, with each slot also remembering the query-string value
\* it was called with (arg), so that a response can be compared with it.
DiaArgs == DiaInputs \cup {<<2024, 2, 29>>, <<2025, 3, 10>>}
MesArgs == MesInputs \cup {<<2025, 2>>, <<2024, 12>>}

WithArg(rec, arg) ==
  [f \in (DOMAIN rec) \cup {"arg"} |-> IF f = "arg" THEN arg ELSE rec[f]]

\* vendas_dia called with data
StartDiaArg(r, data) ==
  /\ CanStart(r)
  /\ req' = [req EXCEPT ![r] = WithArg([Idle EXCEPT !.pc = "check_lock",
                                                    !.ep = "vendas_dia",
                                                    !.alvo = ParseDia(data)], data)]
  /\ UNCHANGED <<cache, locked, now, out, prev, lastw, cvars, dvars>>

\* vendas_mes called with ano_mes
StartMesArg(r, ano_mes) ==
  /\ CanStart(r)
  /\ LET primeiro_dia == ParseMes(ano_mes)
     IN req' = [req EXCEPT ![r] =
                  WithArg([Idle EXCEPT !.pc = IF ProximoMesRaises(primeiro_dia)
                                              THEN "exc_lock" ELSE "check_lock",
                                       !.ep = "vendas_mes",
                                       !.alvo = primeiro_dia], ano_mes)]
  /\ UNCHANGED <<cache, locked, now, out, prev, lastw, cvars, dvars>>

InputNext ==
  \/ \E r \in Reqs : \E data \in DiaArgs : StartDiaArg(r, data)
  \/ \E r \in Reqs : \E ano_mes \in MesArgs : StartMesArg(r, ano_mes)
  \/ \E r \in Reqs : StartEstoque(r)
  \/ \E r \in Reqs : Continue(r)
  \/ Tick

InputSpec == Init /\ [][InputNext]_vars

\* a date or month text that names a real day / a real month
WellFormed(ep, arg) ==
  IF ep = "vendas_dia"
  THEN Len(arg) = 3 /\ ValidDate(arg[1], arg[2], arg[3])
  ELSE Len(arg) = 2 /\ ValidDate(arg[1], arg[2], 1)

\* C12: every sales request returns a response; it echoes the period given
\* when the input is well formed, and the server's current day or month when
\* the input is missing, empty or unparsable.
C12_EchoesInputOrToday ==
  [][\A r \in Reqs :
       (IsSales(req[r].ep) /\ Steps(r) /\ req'[r].pc = "done")
       => out'.resp.period =
            (IF WellFormed(req[r].ep, req[r].arg) THEN req[r].arg
             ELSE IF req[r].ep = "vendas_dia" THEN Hoje ELSE MesAtual)]_vars

\* ---------------------------------------------------------------------------
\* The queries as functions of their inputs: the month interval of vendas_mes,
\* the aggregate of both sales endpoints over any sales table, and the two
\* sums of metricas_estoque over any product table.  Each action computes one
\* of them for one input and leaves the result in out; a behaviour computes
\* one result.

MaxRows == 2

\* years at the ends of date's range, a leap year, and the years around today
Anos == {1, 2024, 2025, 9998, 9999}

\* created_at of the probed sale: first and last day of 2024-12, the first
\* instant after it, the day before it, and days of the months around
Probes == {<<2024, 12, 1>>, <<2024, 12, 31>>, <<2025, 1, 1>>,
           <<2024, 11, 30>>, <<2025, 1, 31>>, <<9999, 12, 31>>}

\* sales rows a table can hold
VendaPool ==
  [total : {None, 1000}, desconto : {None, 50}, cancelada : BOOLEAN,
   created_at : {Hoje, <<2025, 3, 9>>, <<2025, 4, 1>>}]

\* product rows a table can hold
ProdutoPool ==
  [estoque : {0, 3}, preco_custo : {10, 40}, preco_venda : {25}, ativo : BOOLEAN]

\* every table of at most MaxRows rows of pool
Tables(pool) == UNION {[1..n -> pool] : n \in 0..MaxRows}

\* lines 72-99 of vendas_mes for ano_mes = y-m and one sale row: the bounds
\* of the statement, whether computing them raised, and whether the where
\* clause selects the row
Intervalo(y, m, created_at) ==
  LET primeiro_dia == ParseMes(<<y, m>>)
      raised == ProximoMesRaises(primeiro_dia)
      v == [total |-> 1000, desconto |-> 0, cancelada |-> FALSE,
            created_at |-> created_at]
  IN [ep |-> "intervalo", arg |-> <<y, m>>, row |-> v,
      primeiro_dia |-> primeiro_dia, raised |-> raised,
      proximo_mes |-> IF raised THEN <<>> ELSE ProximoMes(primeiro_dia),
      selected |-> IF raised THEN FALSE ELSE InMes(v, primeiro_dia)]

\* lines 40-53 and 90-108: the statement of a sales endpoint run on rows
Agregado(ep, rows) ==
  LET alvo == IF ep = "vendas_dia" THEN ParseDia(NoParam) ELSE ParseMes(NoParam)
  IN [ep |-> "agregado", kind |-> ep, alvo |-> alvo, rows |-> rows,
      total |-> FloatOrZero(Coalesce(SumOver(rows, ep, alvo, Len(rows)), 0))]

\* lines 137-151: both statements of metricas_estoque run on rows
Valuation(rows) ==
  LET valor_estoque == FloatOrZero(Coalesce(SumProdOver(rows, "custo", Len(rows)), 0))
      valor_potencial == FloatOrZero(Coalesce(SumProdOver(rows, "venda", Len(rows)), 0))
  IN [ep |-> "valuation", rows |-> rows,
      valor_estoque |-> valor_estoque,
      valor_potencial |-> valor_potencial,
      lucro_potencial |-> valor_potencial - valor_estoque]

RunIntervalo ==
  /\ out = NoOut
  /\ \E y \in Anos : \E m \in 1..12 : \E c \in Probes : out' = Intervalo(y, m, c)
  /\ UNCHANGED <<cache, locked, now, req, prev, lastw, cvars, dvars>>

RunAgregado ==
  /\ out = NoOut
  /\ \E ep \in {"vendas_dia", "vendas_mes"} : \E rows \in Tables(VendaPool) :
       out' = Agregado(ep, rows)
  /\ UNCHANGED <<cache, locked, now, req, prev, lastw, cvars, dvars>>

RunValuation ==
  /\ out = NoOut
  /\ \E rows \in Tables(ProdutoPool) : out' = Valuation(rows)
  /\ UNCHANGED <<cache, locked, now, req, prev, lastw, cvars, dvars>>

QueryNext == RunIntervalo \/ RunAgregado \/ RunValuation

QuerySpec == Init /\ [][QueryNext]_vars

\* C13: for every year y and month m of 1..12 the statement of vendas_mes
\* ranges over [y-m-01, next), next being y-(m+1)-01 when m < 12 and
\* (y+1)-01-01 when m = 12, and it selects a sale exactly when the sale's
\* created_at lies in that half-open range.
C13_IntervalIsCalendarMonth ==
  out.ep = "intervalo" =>
    LET y == out.arg[1]
        m == out.arg[2]
        next == IF m < 12 THEN <<y, m + 1, 1>> ELSE <<y + 1, 1, 1>>
        c == out.row.created_at
    IN /\ ~out.raised
       /\ out.primeiro_dia = <<y, m, 1>>
       /\ out.proximo_mes = next
       /\ out.selected <=> (DateLe(<<y, m, 1>>, c) /\ DateLt(c, next))

\* sum of f[i] over the indices i of S
RECURSIVE SumF(_, _)
SumF(f, S) ==
  IF S = {} THEN 0
  ELSE LET i == CHOOSE j \in S : TRUE IN f[i] + SumF(f, S \ {i})

\* the sales of rows that count for the period alvo of endpoint kind
Counted(kind, alvo, rows) ==
  {i \in 1..Len(rows) :
     /\ ~rows[i].cancelada
     /\ IF kind = "vendas_dia" THEN rows[i].created_at = alvo
        ELSE /\ rows[i].created_at[1] = alvo[1]
             /\ rows[i].created_at[2] = alvo[2]}

\* total minus discount of each row, a missing one counting as zero
Net(rows) ==
  [i \in 1..Len(rows) |->
     (IF rows[i].total = None THEN 0 ELSE rows[i].total)
     - (IF rows[i].desconto = None THEN 0 ELSE rows[i].desconto)]

\* C14: the total of a successful sales query is the sum of total minus
\* discount over exactly the non-cancelled sales of the period, a missing
\* total or discount counting as zero; it is never null, and it is 0 when
\* the period has no sale or only cancelled ones (one sale of 1000 with
\* discount 50 gives 950).
C14_TotalIsNetOfCountedSales ==
  out.ep = "agregado" =>
    /\ out.total # None
    /\ out.total = SumF(Net(out.rows), Counted(out.kind, out.alvo, out.rows))
    /\ (Counted(out.kind, out.alvo, out.rows) = {} => out.total = 0)

C14_Witness ==
  /\ out.ep = "agregado" /\ out.kind = "vendas_dia"
  /\ Len(out.rows) = 2
  /\ out.rows[1] = [total |-> 1000, desconto |-> 50, cancelada |-> FALSE,
                    created_at |-> Hoje]
  /\ out.rows[2] = [total |-> 1000, desconto |-> None, cancelada |-> TRUE,
                    created_at |-> Hoje]
  /\ out.total = 950

\* the active products of rows
Ativos(rows) == {i \in 1..Len(rows) : rows[i].ativo}

\* C15: on success the inventory figures are the sums of stock times cost
\* and of stock times price over the active products only, the profit is
\* their difference, the figures are those of the table without its
\* inactive products, and all three are 0 when no product is active.
C15_ValuationOverActiveOnly ==
  out.ep = "valuation" =>
    LET rows == out.rows
        custo == [i \in 1..Len(rows) |-> rows[i].estoque * rows[i].preco_custo]
        venda == [i \in 1..Len(rows) |-> rows[i].estoque * rows[i].preco_venda]
        so_ativos == SelectSeq(rows, LAMBDA p : p.ativo)
    IN /\ out.valor_estoque = SumF(custo, Ativos(rows))
       /\ out.valor_potencial = SumF(venda, Ativos(rows))
       /\ out.lucro_potencial = out.valor_potencial - out.valor_estoque
       /\ out.valor_estoque
            = FloatOrZero(Coalesce(SumProdOver(so_ativos, "custo", Len(so_ativos)), 0))
       /\ out.valor_potencial
            = FloatOrZero(Coalesce(SumProdOver(so_ativos, "venda", Len(so_ativos)), 0))
       /\ (Ativos(rows) = {} =>
             out.valor_estoque = 0 /\ out.valor_potencial = 0
             /\ out.lucro_potencial = 0)

C15_Witness ==
  /\ out.ep = "valuation" /\ Len(out.rows) = 2
  /\ out.rows[1].ativo /\ out.rows[1].estoque = 3 /\ out.rows[1].preco_custo = 10
  /\ ~out.rows[2].ativo /\ out.rows[2].estoque = 3
  /\ out.valor_estoque = 30 /\ out.valor_potencial = 75
  /\ out.lucro_potencial = 45

\* C16: when either inventory query fails the response is a normal result
\* with the three figures 0 and a warning, also when the first query had
\* succeeded; a request issues each of its two queries at most once, and an
\* inventory handler never takes the lock nor changes the cache, its
\* response being a function of its queries' outcomes alone.
C16_EstoqueFailureGivesZeros ==
  /\ []((out.ep = "estoque" /\ out.nok < 2) =>
          /\ out.resp = [valor_estoque |-> 0, valor_potencial |-> 0,
                         lucro_potencial |-> 0, warning |-> "error"]
          /\ out.src = "except")
  /\ []((out.ep = "estoque" /\ out.nok = 2) =>
          /\ out.resp.warning = NoWarning
          /\ out.resp.valor_estoque = ValorEstoque
          /\ out.resp.valor_potencial = ValorPotencial)
  /\ [](out.ep = "estoque" => out.nq \in 1..2 /\ out.nok <= out.nq)
  /\ [][\A r \in Reqs :
          (Steps(r) /\ (req[r].ep = "estoque" \/ req'[r].ep = "estoque"))
          => /\ cache' = cache /\ locked' = locked
             /\ ~req'[r].holds
             /\ req'[r].nq <= 2
             /\ req'[r].nq \in {req[r].nq, req[r].nq + 1, 0}]_vars

C16_Witness ==
  /\ out.ep = "estoque" /\ out.src = "except"
  /\ out.nq = 2 /\ out.nok = 1
  /\ out.resp.valor_estoque = 0 /\ out.resp.warning # NoWarning
  /\ \E k \in CacheKeys : cache[k].value # None

\* ---------------------------------------------------------------------------
\* scripts/cleanup_duplicate_vendas.py: the signature of a sale and the choice
\* of the sale to keep, as functions of their argument.

MaxItens == 2
MaxGroup == 3

\* Floats are counted in tenths of the sixth decimal, so that round(x, 6)
\* has something to drop.
Ulp == 10

\* round(x, 6)
Round6(x) == ((x + (Ulp \div 2)) \div Ulp) * Ulp

\* line items a sale can hold; produto_id is a number standing for the id's
\* text, None a missing value.  The first two differ only in the seventh
\* decimal of peso_kg, the next two only in which of quantidade and peso_kg
\* is missing and which is zero.
ItemPool == {
  [produto_id |-> 1, quantidade |-> 2, peso_kg |-> 12, preco_unitario |-> 500, subtotal |-> 1000],
  [produto_id |-> 1, quantidade |-> 2, peso_kg |-> 14, preco_unitario |-> 500, subtotal |-> 1000],
  [produto_id |-> 1, quantidade |-> None, peso_kg |-> 0, preco_unitario |-> 500, subtotal |-> 0],
  [produto_id |-> 1, quantidade |-> 0, peso_kg |-> None, preco_unitario |-> 500, subtotal |-> 0],
  [produto_id |-> 2, quantidade |-> 2, peso_kg |-> 12, preco_unitario |-> 500, subtotal |-> 1000],
  [produto_id |-> 1, quantidade |-> 1, peso_kg |-> 12, preco_unitario |-> 500, subtotal |-> 500] }

\* every item list of at most MaxItens items
ItemLists == UNION {[1..n -> ItemPool] : n \in 0..MaxItens}

\* lines 103-109: the tuple of one item; str(x or "") is 0 for a missing id
KeyItem(it) ==
  <<Coalesce(it.produto_id, 0),
    Coalesce(it.quantidade, 0),
    Round6(FloatOrZero(it.peso_kg)),
    Round6(FloatOrZero(it.preco_unitario)),
    Round6(FloatOrZero(it.subtotal))>>

\* Python's order on tuples of equal length, from position i on
RECURSIVE TupleLt(_, _, _)
TupleLt(a, b, i) ==
  IF i > Len(a) THEN FALSE
  ELSE IF a[i] # b[i] THEN a[i] < b[i]
  ELSE TupleLt(a, b, i + 1)

\* s with k put after the last element that is not greater than k
RECURSIVE InsertKey(_, _)
InsertKey(s, k) ==
  IF s = <<>> THEN <<k>>
  ELSE IF TupleLt(k, s[Len(s)], 1)
       THEN Append(InsertKey(SubSeq(s, 1, Len(s) - 1), k), s[Len(s)])
       ELSE Append(s, k)

\* faulty variant: the keys are left in the order of the items
KeepOrder(keys, n) == SubSeq(keys, 1, n)

\* key_items.sort() on the first n keys
RECURSIVE SortKeys(_, _)
SortKeys(keys, n) ==
  IF n = 0 THEN <<>> ELSE InsertKey(SortKeys(keys, n - 1), keys[n])

\* lines 97-112; forma_pagamento is a number standing for its text, 0 the
\* empty text
build_signature(v) ==
  LET itens == v.itens
      key_items == [i \in 1..Len(itens) |-> KeyItem(itens[i])]
  IN <<Round6(FloatOrZero(v.total)),
       Coalesce(v.forma_pagamento, 0),
       SortKeys(key_items, Len(key_items))>>

\* datetime.now(timezone.utc): later than every stored created_at
Agora == 30

\* members a duplicate group can hold: usuario_id and created_at, each
\* possibly missing
MemberPool == [usuario_id : {None, 7}, created_at : {None, 10, 20}]

\* every group of 1..MaxGroup members, each with its own id
Groups ==
  UNION {{[i \in 1..n |-> [id |-> i, usuario_id |-> g[i].usuario_id,
                           created_at |-> g[i].created_at]] :
            g \in [1..n -> MemberPool]} : n \in 1..MaxGroup}

\* line 118: rank(v)
rank(v) ==
  <<IF v.usuario_id # None THEN 0 ELSE 1, Coalesce(v.created_at, Agora)>>

\* s with v put after the last element whose rank is not greater
RECURSIVE InsertByRank(_, _)
InsertByRank(s, v) ==
  IF s = <<>> THEN <<v>>
  ELSE IF TupleLt(rank(v), rank(s[Len(s)]), 1)
       THEN Append(InsertByRank(SubSeq(s, 1, Len(s) - 1), v), s[Len(s)])
       ELSE Append(s, v)

\* sorted(group, key=rank) on the first n members (a stable sort)
RECURSIVE SortedByRank(_, _)
SortedByRank(group, n) ==
  IF n = 0 THEN <<>> ELSE InsertByRank(SortedByRank(group, n - 1), group[n])

\* faulty variant: the first member as fetched, whatever its operator
KeepFirst(group) == group[1]

\* lines 115-119
choose_to_keep(group) == SortedByRank(group, Len(group))[1]

\* build_signature of two sales with the same total and payment method
RunSignature ==
  /\ out = NoOut
  /\ \E total \in {0, 1000} : \E forma \in {None, 1} :
       \E ia \in ItemLists : \E ib \in ItemLists :
         LET a == [total |-> total, forma_pagamento |-> forma, itens |-> ia]
             b == [total |-> total, forma_pagamento |-> forma, itens |-> ib]
         IN out' = [ep |-> "signature", a |-> a, b |-> b,
                    sig_a |-> build_signature(a), sig_b |-> build_signature(b)]
  /\ UNCHANGED <<cache, locked, now, req, prev, lastw, cvars, dvars>>

\* choose_to_keep of one group
RunChoose ==
  /\ out = NoOut
  /\ \E group \in Groups :
       out' = [ep |-> "keep", group |-> group, keep |-> choose_to_keep(group)]
  /\ UNCHANGED <<cache, locked, now, req, prev, lastw, cvars, dvars>>

KeyNext == RunSignature \/ RunChoose

KeySpec == Init /\ [][KeyNext]_vars

Range(s) == {s[i] : i \in 1..Len(s)}

\* the multiset of the elements of s: how often each occurs
BagOf(s) == [x \in Range(s) |-> Cardinality({i \in 1..Len(s) : s[i] = x})]

\* the items of sale v as build_signature reads them
KeysOf(v) == [i \in 1..Len(v.itens) |-> KeyItem(v.itens[i])]

\* C17 as stated: two sales with the same total and payment method get
\* equal signatures when their item lists hold the same multiset of items,
\* and different signatures when the multisets differ.
C17_SignatureIffSameItems ==
  out.ep = "signature" =>
    (out.sig_a = out.sig_b <=> BagOf(out.a.itens) = BagOf(out.b.itens))

\* C17 amended: permuting the items never changes the signature, and two
\* sales with the same total and payment method get equal signatures exactly
\* when the multisets of their items as the signature reads them (missing id
\* as empty, missing quantity or amount as 0, weight, unit price and subtotal
\* rounded to 6 decimals) are equal.
C17_SignatureIffSameKeys ==
  out.ep = "signature" =>
    /\ BagOf(out.a.itens) = BagOf(out.b.itens) => out.sig_a = out.sig_b
    /\ out.sig_a = out.sig_b <=> BagOf(KeysOf(out.a)) = BagOf(KeysOf(out.b))

C17_Witness ==
  /\ out.ep = "signature"
  /\ Len(out.a.itens) = 2 /\ Len(out.b.itens) = 2
  /\ out.a.itens[1] # out.a.itens[2]
  /\ KeyItem(out.a.itens[1]) # KeyItem(out.a.itens[2])
  /\ out.b.itens = <<out.a.itens[2], out.a.itens[1]>>
  /\ out.sig_a = out.sig_b

\* C18: choose_to_keep returns a member of the group; the member has an
\* operator whenever some member has one, whatever the order of creation;
\* and no member of the same operator status was created before it.
C18_KeepsOperatorThenEarliest ==
  out.ep = "keep" =>
    LET group == out.group
        keep == out.keep
    IN /\ keep \in Range(group)
       /\ (\E v \in Range(group) : v.usuario_id # None) => keep.usuario_id # None
       /\ \A v \in Range(group) :
            ((v.usuario_id # None) = (keep.usuario_id # None)
             /\ v.created_at # None)
            => /\ keep.created_at # None
               /\ keep.created_at <= v.created_at

C18_Witness ==
  /\ out.ep = "keep" /\ Len(out.group) = 3
  /\ out.group[1].usuario_id = None /\ out.group[1].created_at = 10
  /\ out.group[2].usuario_id # None /\ out.group[2].created_at = 20
  /\ out.group[3].usuario_id # None /\ out.group[3].created_at = 10
  /\ out.keep = out.group[3]

\* ---------------------------------------------------------------------------
\* scripts/cleanup_duplicate_vendas.py: main() as a state machine over the
\* tables vendas and itens_venda.  The script works in one transaction: its
\* deletes are kept in conn until the commit, and closing drops them.

MaxVendas == 4

\* the variables of the service
mvars == <<cache, locked, now, req, out, prev, lastw>>

ItemA == [produto_id |-> 1, quantidade |-> 2, peso_kg |-> 0, preco_unitario |-> 500, subtotal |-> 1000]
ItemB == [produto_id |-> 2, quantidade |-> 1, peso_kg |-> 0, preco_unitario |-> 500, subtotal |-> 500]
ItemC == [produto_id |-> 2, quantidade |-> 3, peso_kg |-> 0, preco_unitario |-> 500, subtotal |-> 1500]

\* the item lists of a stored sale, in the order of their rows
ItemOptions == {<<ItemA, ItemB>>, <<ItemB, ItemA>>, <<ItemC>>}

\* what distinguishes the stored sales: operator, cancelled or not, items
\* (a cancelled sale is never fetched, so its operator and items are not
\* varied)
SaleChoices ==
  {c \in [1..MaxVendas ->
            [usuario_id : {None, 7}, cancelada : BOOLEAN, itens : ItemOptions]] :
     \A i \in 1..MaxVendas :
       c[i].cancelada => (c[i].usuario_id = None /\ c[i].itens = <<ItemA, ItemB>>)}

\* the tables holding the sales of choice c, created in the order of their ids
LoadedRows(c) ==
  [vendas |-> {[id |-> i, usuario_id |-> c[i].usuario_id, total |-> 1500,
                desconto |-> 0, forma_pagamento |-> 1, created_at |-> 10 * i,
                cancelada |-> c[i].cancelada] : i \in 1..MaxVendas},
   itens |-> UNION {{[venda_id |-> i, pos |-> k, item |-> c[i].itens[k]] :
                       k \in 1..Len(c[i].itens)} : i \in 1..MaxVendas}]

\* faulty variant: the query forgets WHERE v.cancelada = false
TodasVendas(rows) == rows.vendas

\* line 66: WHERE v.cancelada = false
NaoCanceladas(rows) == {v \in rows.vendas : ~v.cancelada}

\* line 67: ORDER BY v.created_at ASC
RECURSIVE OrderByCreatedAt(_)
OrderByCreatedAt(S) ==
  IF S = {} THEN <<>>
  ELSE LET v == CHOOSE x \in S :
                  \A w \in S : ~TupleLt(<<w.created_at, w.id>>,
                                        <<x.created_at, x.id>>, 1)
       IN <<v>> \o OrderByCreatedAt(S \ {v})

\* the item rows R of one sale as a list, in the order of the rows
RECURSIVE SeqByPos(_)
SeqByPos(R) ==
  IF R = {} THEN <<>>
  ELSE LET r == CHOOSE x \in R : \A w \in R : x.pos <= w.pos
       IN <<r.item>> \o SeqByPos(R \ {r})

\* lines 76-93: the dict of one sale; rows without produto_id are dropped
VendaDict(rows, v) ==
  [id |-> v.id, usuario_id |-> v.usuario_id,
   total |-> FloatOrZero(v.total), desconto |-> FloatOrZero(v.desconto),
   forma_pagamento |-> v.forma_pagamento, created_at |-> v.created_at,
   itens |-> SeqByPos({r \in rows.itens :
                         r.venda_id = v.id /\ r.item.produto_id \notin {None, 0}})]

\* lines 49-94
fetch_vendas_and_itens(rows) ==
  LET ordered == OrderByCreatedAt(NaoCanceladas(rows))
  IN [i \in 1..Len(ordered) |-> VendaDict(rows, ordered[i])]

\* lines 135-139: groups[sig].append(v) for the first n sales, the groups in
\* the order in which their signature first appeared
RECURSIVE Agrupar(_, _)
Agrupar(vendas, n) ==
  IF n = 0 THEN <<>>
  ELSE LET gs == Agrupar(vendas, n - 1)
           v == vendas[n]
           hit == {i \in 1..Len(gs) : build_signature(gs[i][1]) = build_signature(v)}
       IN IF hit = {} THEN Append(gs, <<v>>)
          ELSE [gs EXCEPT ![CHOOSE i \in hit : TRUE] = Append(@, v)]

\* line 142: the groups with more than one sale
Dups(rows) ==
  LET vendas == fetch_vendas_and_itens(rows)
  IN SelectSeq(Agrupar(vendas, Len(vendas)), LAMBDA g : Len(g) > 1)

\* faulty variant: only the first of the other members is removed
ToRemoveOne(lst) ==
  LET keep == choose_to_keep(lst)
      rest == SelectSeq(lst, LAMBDA v : v.id # keep.id)
  IN <<rest[1].id>>

\* lines 149-150: the ids to remove from group lst
ToRemove(lst) ==
  LET keep == choose_to_keep(lst)
      rest == SelectSeq(lst, LAMBDA v : v.id # keep.id)
  IN [i \in 1..Len(rest) |-> rest[i].id]

\* where main goes once the deletes of a group are issued
AfterGroup(dups) == IF dups = <<>> THEN "commit" ELSE "group"

\* line 132: psycopg2.connect(url)
Connect ==
  /\ script.pc = "start"
  /\ conn' = [open |-> TRUE, del_itens |-> {}, del_vendas |-> {}]
  /\ script' = [script EXCEPT !.pc = "fetch"]
  /\ UNCHANGED <<mvars, dvars, stored, antes>>

\* lines 134-145: fetch, group, keep the duplicate groups; return when none
Fetch ==
  /\ script.pc = "fetch"
  /\ script' = [script EXCEPT !.dups = Dups(stored),
                              !.pc = IF Dups(stored) = <<>> THEN "close" ELSE "group"]
  /\ UNCHANGED <<mvars, dvars, stored, conn, antes>>

\* line 134: the query raises
FetchFail ==
  /\ script.pc = "fetch"
  /\ script' = [script EXCEPT !.pc = "close", !.failed = TRUE]
  /\ UNCHANGED <<mvars, dvars, stored, conn, antes>>

\* lines 148-152: the next group, its sale to keep and those to remove
EnterGroup ==
  /\ script.pc = "group"
  /\ LET fila == ToRemove(Head(script.dups))
         rest == Tail(script.dups)
     IN script' = [script EXCEPT !.dups = rest, !.fila = fila,
                     !.pc = IF fila = <<>> THEN AfterGroup(rest) ELSE "del_itens"]
  /\ UNCHANGED <<mvars, dvars, stored, conn, antes>>

\* faulty variant: the delete of the line items is left out
DeleteItensSkipped ==
  /\ script.pc = "del_itens"
  /\ script' = [script EXCEPT !.pc = "del_venda"]
  /\ UNCHANGED <<mvars, dvars, stored, conn, antes>>

\* line 125: DELETE FROM itens_venda WHERE venda_id = ...
DeleteItens ==
  /\ script.pc = "del_itens"
  /\ conn' = [conn EXCEPT !.del_itens = @ \cup {Head(script.fila)}]
  /\ script' = [script EXCEPT !.pc = "del_venda"]
  /\ UNCHANGED <<mvars, dvars, stored, antes>>

\* faulty variant: the delete is committed at once
DeleteVendaAutocommit ==
  /\ script.pc = "del_venda"
  /\ stored' = [vendas |-> {v \in stored.vendas : v.id # Head(script.fila)},
                itens |-> {r \in stored.itens : r.venda_id # Head(script.fila)}]
  /\ conn' = [conn EXCEPT !.del_vendas = @ \cup {Head(script.fila)}]
  /\ script' = [script EXCEPT !.fila = Tail(@), !.total_removed = @ + 1,
                  !.pc = IF Tail(script.fila) # <<>> THEN "del_itens"
                         ELSE AfterGroup(script.dups)]
  /\ UNCHANGED <<mvars, dvars, antes>>

\* lines 127 and 157-159: DELETE FROM vendas WHERE id = ...; then the next
\* sale of the group, the next group, or the commit
DeleteVenda ==
  /\ script.pc = "del_venda"
  /\ conn' = [conn EXCEPT !.del_vendas = @ \cup {Head(script.fila)}]
  /\ script' = [script EXCEPT !.fila = Tail(@), !.total_removed = @ + 1,
                  !.pc = IF Tail(script.fila) # <<>> THEN "del_itens"
                         ELSE AfterGroup(script.dups)]
  /\ UNCHANGED <<mvars, dvars, stored, antes>>

\* lines 125, 127: either delete raises; main leaves through finally
DeleteFail ==
  /\ script.pc \in {"del_itens", "del_venda"}
  /\ script' = [script EXCEPT !.pc = "close", !.failed = TRUE]
  /\ UNCHANGED <<mvars, dvars, stored, conn, antes>>

\* line 160: conn.commit() makes the deletes of the transaction durable
Commit ==
  /\ script.pc = "commit"
  /\ stored' = [vendas |-> {v \in stored.vendas : v.id \notin conn.del_vendas},
                itens |-> {r \in stored.itens : r.venda_id \notin conn.del_itens}]
  /\ conn' = [conn EXCEPT !.del_itens = {}, !.del_vendas = {}]
  /\ script' = [script EXCEPT !.pc = "close", !.committed = TRUE]
  /\ UNCHANGED <<mvars, dvars, antes>>

\* line 160: conn.commit() raises
CommitFail ==
  /\ script.pc = "commit"
  /\ script' = [script EXCEPT !.pc = "close", !.failed = TRUE]
  /\ UNCHANGED <<mvars, dvars, stored, conn, antes>>

\* lines 162-163: finally conn.close(); what was not committed is dropped
Close ==
  /\ script.pc = "close"
  /\ conn' = NoConn
  /\ script' = [script EXCEPT !.pc = "done"]
  /\ UNCHANGED <<mvars, dvars, stored, antes>>

CleanupInit ==
  /\ MetricsInit
  /\ \E c \in SaleChoices : stored = LoadedRows(c)
  /\ antes = stored
  /\ conn = NoConn
  /\ script = [NotRun EXCEPT !.pc = "start"]
  /\ RouterOff

CleanupNext ==
  \/ Connect \/ Fetch \/ FetchFail \/ EnterGroup
  \/ DeleteItens \/ DeleteVenda \/ DeleteFail
  \/ Commit \/ CommitFail \/ Close

CleanupSpec == CleanupInit /\ [][CleanupNext]_vars

\* the signature of a sale stored before the pass
SigAntes(v) == build_signature(VendaDict(antes, v))

\* the sales that were stored and not cancelled before the pass
Live0 == {v \in antes.vendas : ~v.cancelada}

\* v shared its signature with another sale that was not cancelled
IsDup(v) ==
  /\ v \in Live0
  /\ \E w \in Live0 : w.id # v.id /\ SigAntes(w) = SigAntes(v)

\* the sales gone from the table
Deleted == antes.vendas \ stored.vendas

\* C19: a cancelled sale and a sale alone with its signature are never
\* deleted, a deleted sale being one that shared its signature with another
\* sale not cancelled; after a committed pass every signature that was
\* present among the sales not cancelled is held by exactly one of those
\* that remain, that one having an operator whenever a sale of its group had
\* one, and the line items that remain are exactly those of the sales that
\* remain.
C19_CommittedPassKeepsOnePerSignature ==
  /\ stored.vendas \subseteq antes.vendas
  /\ \A v \in Deleted : ~v.cancelada /\ IsDup(v)
  /\ (script.pc = "done" /\ script.committed) =>
       /\ \A v \in Live0 :
            Cardinality({w \in stored.vendas :
                           ~w.cancelada /\ SigAntes(w) = SigAntes(v)}) = 1
       /\ \A v \in stored.vendas : \A w \in Live0 :
            (~v.cancelada /\ SigAntes(w) = SigAntes(v) /\ w.usuario_id # None)
            => v.usuario_id # None
       /\ stored.itens
            = {r \in antes.itens : \E v \in stored.vendas : v.id = r.venda_id}

C19_Witness ==
  /\ script.pc = "done" /\ script.committed
  /\ Cardinality(Deleted) = 1
  /\ \E v \in Deleted : \E w \in stored.vendas :
       w.cancelada /\ SigAntes(w) = SigAntes(v)
  /\ \E v \in stored.vendas : ~v.cancelada /\ ~IsDup(v)

\* every id the pass has to remove, over all duplicate groups
RECURSIVE AllToRemove(_, _)
AllToRemove(dups, n) ==
  IF n = 0 THEN {}
  ELSE AllToRemove(dups, n - 1) \cup Range(ToRemove(dups[n]))

\* C20: the stored rows change only at the commit, which comes after the
\* deletes of every sale to remove of every duplicate group were issued; a
\* pass that ends without commit, in particular one in which a delete
\* failed, leaves the stored sales and line items as they were, and the
\* connection is closed when the pass ends.
C20_AllOrNothing ==
  /\ [][stored' # stored =>
          /\ script.pc = "commit" /\ script'.committed
          /\ script.dups = <<>> /\ script.fila = <<>>
          /\ conn.del_vendas = AllToRemove(Dups(antes), Len(Dups(antes)))
          /\ conn.del_itens = conn.del_vendas]_vars
  /\ []((script.pc = "done" /\ ~script.committed) => stored = antes)
  /\ [](script.failed => (stored = antes /\ ~script.committed))
  /\ [](script.pc = "done" => ~conn.open)

C20_Witness ==
  /\ script.pc = "done" /\ script.failed /\ ~script.committed
  /\ script.total_removed >= 1 /\ script.fila # <<>>
  /\ ~conn.open
  /\ stored = antes

\* the rows the script's transaction sees: the stored ones less its deletes
TxVendas == {v \in stored.vendas : v.id \notin conn.del_vendas}
TxItens == {r \in stored.itens : r.venda_id \notin conn.del_itens}

\* C21: the line items of a removed sale are deleted before its row: a sale
\* row is deleted only when its items already are, and at every step of the
\* pass each line item, as the transaction and as the table hold it, refers
\* to a sale that is still there.
C21_ItemsBeforeSale ==
  /\ [](\A r \in TxItens : \E v \in TxVendas : v.id = r.venda_id)
  /\ [](\A r \in stored.itens : \E v \in stored.vendas : v.id = r.venda_id)
  /\ [][conn'.del_vendas \ conn.del_vendas \subseteq conn.del_itens]_vars

C21_Witness ==
  /\ script.pc = "del_venda"
  /\ conn.del_vendas # {}
  /\ Head(script.fila) \in conn.del_itens
  /\ Head(script.fila) \notin conn.del_vendas
  /\ \E r \in stored.itens : r.venda_id \in conn.del_vendas

\* the script is run again on the tables a committed pass left
Rerun ==
  /\ script.pc = "done" /\ script.committed /\ ~script.rerun
  /\ script' = [NotRun EXCEPT !.pc = "start", !.rerun = TRUE]
  /\ antes' = stored
  /\ UNCHANGED <<mvars, dvars, stored, conn>>

RerunNext == CleanupNext \/ Rerun

RerunSpec == CleanupInit /\ [][RerunNext]_vars

\* C25: a pass run on the tables left by a committed pass finds no duplicate
\* group, issues no delete and does not commit: the stored sales and line
\* items stay those the first pass left.
C25_SecondPassDeletesNothing ==
  script.rerun =>
    /\ stored = antes
    /\ script.pc \in {"start", "fetch", "close", "done"}
    /\ script.dups = <<>> /\ script.fila = <<>>
    /\ script.total_removed = 0 /\ ~script.committed
    /\ conn.del_vendas = {} /\ conn.del_itens = {}

C25_Witness ==
  /\ script.rerun /\ script.pc = "done" /\ ~script.failed
  /\ Cardinality(stored.vendas) = MaxVendas - 2
  /\ stored = antes

\* C26: a sales request answers without a warning and without a query of
\* its own only from an entry that is non-empty and younger than 15 s at
\* the check; a request that answers without having attempted a query has
\* found such an entry; and a response with the warning, the only one that
\* can carry a stale value, comes after both attempts failed.
C26_StaleOnlyAfterFailedQueries ==
  [][\A r \in Reqs :
       (IsSales(req[r].ep) /\ Steps(r) /\ req'[r].pc = "done")
       => /\ out'.nq = 0 => (out'.src = "hit" /\ Fresh(req[r].ep))
          /\ out'.src = "hit" => (out'.resp.warning = NoWarning /\ Fresh(req[r].ep))
          /\ out'.resp.warning # NoWarning => (out'.nq = 2 /\ out'.nok = 0)]_vars

\* ---------------------------------------------------------------------------
\* app/routers/despesas.py.  Every handler runs up to its next await in one
\* step; each request has its own session, whose changes reach the tables at
\* its commit and are dropped when the handler raises.

\* payload.get(k)
Get(payload, k) == IF k \in DOMAIN payload THEN payload[k] ELSE Null

\* x or ""
OrEmpty(x) == IF x = Null THEN "" ELSE x

\* str.strip() on the texts that occur
Strip(s) ==
  CASE s = "  " -> ""
    [] s = " agua " -> "agua"
    [] s = " fixo " -> "fixo"
    [] s = " luz " -> "luz"
    [] OTHER -> s

\* lower() on the names that occur
Lower(s) ==
  CASE s = "Agua" -> "agua"
    [] OTHER -> s

\* a slot takes a request once, in the order of the slots
CanStartH(h) ==
  /\ hreq[h].pc = "idle"
  /\ IF h = 1 THEN TRUE ELSE hreq[h - 1].pc # "idle"

\* the handler of slot h returns or raises: the response of its request
Respond(h, status, body) ==
  /\ hout' = [op |-> hreq[h].op, status |-> status, id |-> hreq[h].id,
              payload |-> hreq[h].payload, body |-> body]
  /\ hreq' = [hreq EXCEPT ![h] = HDone]

\* the names the clients send to criar_categoria
NomeInputs == {Null, "  ", "Agua", "agua", " agua "}

\* lines 49-53: trim the name; 400 when empty, else issue the select
CriarCategoria(h, nome_in) ==
  /\ CanStartH(h)
  /\ LET payload == [k \in {"nome"} |-> nome_in]
         nome == Strip(OrEmpty(Get(payload, "nome")))
     IN IF nome = ""
        THEN /\ hout' = [op |-> "criar_categoria", status |-> 400, id |-> "",
                         payload |-> payload, body |-> NoPayload]
             /\ hreq' = [hreq EXCEPT ![h] = HDone]
        ELSE /\ hreq' = [hreq EXCEPT ![h] =
                           [HIdle EXCEPT !.pc = "cat_select",
                                         !.op = "criar_categoria",
                                         !.payload = payload,
                                         !.obj = [k \in {"nome"} |-> nome]]]
             /\ hout' = hout
  /\ UNCHANGED <<mvars, cvars, despesas, categorias>>

\* the stored categories whose name equals nome ignoring case
SameName(nome) == {c \in categorias : Lower(c.nome) = Lower(nome)}

\* lines 53-56: the select returns; scalar_one_or_none gives the row found,
\* raises on more than one, and on none the handler goes on to the insert
CatSelect(h) ==
  /\ hreq[h].pc = "cat_select"
  /\ LET found == SameName(hreq[h].obj.nome)
     IN IF found = {}
        THEN /\ hreq' = [hreq EXCEPT ![h].pc = "cat_commit"]
             /\ hout' = hout
        ELSE IF Cardinality(found) = 1
        THEN Respond(h, 200, CHOOSE c \in found : TRUE)
        ELSE Respond(h, 500, NoPayload)
  /\ UNCHANGED <<mvars, cvars, despesas, categorias>>

\* lines 58-62: the insert is committed
CatCommit(h) ==
  /\ hreq[h].pc = "cat_commit"
  /\ LET row == [id |-> Cardinality(categorias) + 1, nome |-> hreq[h].obj.nome]
     IN /\ categorias' = categorias \cup {row}
        /\ Respond(h, 200, row)
  /\ UNCHANGED <<mvars, cvars, despesas>>

\* line 60: the commit raises, as it may when the table has a unique
\* constraint on nome and holds that very name
CatCommitFail(h) ==
  /\ hreq[h].pc = "cat_commit"
  /\ \E c \in categorias : c.nome = hreq[h].obj.nome
  /\ Respond(h, 500, NoPayload)
  /\ UNCHANGED <<mvars, cvars, despesas, categorias>>

CategoriaInit ==
  /\ MetricsInit
  /\ stored = NoRows /\ conn = NoConn /\ script = NotRun /\ antes = NoRows
  /\ despesas = {}
  /\ categorias \in {{}, {[id |-> 1, nome |-> "Luz"]}}
  /\ hreq = [h \in Slots |-> HIdle]
  /\ hout = NoResp

CategoriaNext ==
  \/ \E h \in Slots : \E nome \in NomeInputs : CriarCategoria(h, nome)
  \/ \E h \in Slots : CatSelect(h)
  \/ \E h \in Slots : CatCommit(h)
  \/ \E h \in Slots : CatCommitFail(h)

CategoriaSpec == CategoriaInit /\ [][CategoriaNext]_vars

\* C27: no two stored categories have names that are equal ignoring case,
\* and a request whose trimmed name equals a stored name ignoring case
\* inserts no row.
C27_NoTwoNamesEqualIgnoringCase ==
  /\ [](\A c1 \in categorias : \A c2 \in categorias :
          Lower(c1.nome) = Lower(c2.nome) => c1 = c2)
  /\ [][\A h \in Slots :
          (hreq[h].pc = "cat_commit" /\ hreq'[h].pc = "done"
           /\ categorias' # categorias)
          => SameName(hreq[h].obj.nome) = {}]_vars

\* --------------------------------------------------------------- expenses
\* the columns of an expense that the handlers assign
Fields == {"tipo", "categoria", "descricao", "valor", "status",
           "data_pagamento", "data_vencimento", "usuario_id", "fechada"}

\* date.today().isoformat()
HojeIso == "2025-03-10"

\* uuid.UUID(s): the texts that parse, and the uuid each one gives
IsUUID(s) == s \in {"d1", "D1", "d2", "d9", "u1"}
ParseUUID(s) == IF s = "D1" THEN "d1" ELSE s

\* float(s): the texts that parse (None does not), and the number each gives
IsFloat(s) == s \in {"12.50", "7"}
ParseFloat(s) == IF s = "12.50" THEN "12.5" ELSE "7.0"

\* _parse_date, lines 14-20: None for a missing or empty value; raises 400
\* for a text that is not an ISO date
DateRaises(s) == s \notin {Null, "", "2025-03-10", "2025-04-01"}
ParseDate(s) == IF s = "" THEN Null ELSE s

\* bool(x) of a JSON value
Truthy(x) == x \notin {Null, "", "false"}

\* the expenses stored before the requests
Despesa1 ==
  [id |-> "d1", tipo |-> "fixo", categoria |-> "agua", descricao |-> "conta",
   valor |-> "12.5", status |-> "Pago", data_pagamento |-> "2025-03-10",
   data_vencimento |-> "2025-04-01", usuario_id |-> "u1", fechada |-> FALSE]
Despesa2 ==
  [id |-> "d2", tipo |-> "var", categoria |-> "luz", descricao |-> "jan",
   valor |-> "7.0", status |-> "Pendente", data_pagamento |-> "2025-03-10",
   data_vencimento |-> "2025-03-10", usuario_id |-> Null, fechada |-> TRUE]

\* ids the database gives to new rows, in the order of the inserts
NewIds == <<"n1", "n2", "n3", "n4">>
NewId == NewIds[Cardinality({d \in despesas : d.id \notin {"d1", "d2"}}) + 1]

\* the stored expense with primary key did, as a set of at most one row
RowOf(did) == {d \in despesas : d.id = did}

\* lines 125-157 of criar_despesa: the status it raises, or 0, and the
\* object it builds
Criar(payload) ==
  LET tipo == Strip(OrEmpty(Get(payload, "tipo")))
      categoria == Strip(OrEmpty(Get(payload, "categoria")))
      descricao == Strip(OrEmpty(Get(payload, "descricao")))
      valor == Get(payload, "valor")
      dp == Get(payload, "data_pagamento")
      dv == Get(payload, "data_vencimento")
      data_pagamento == IF ParseDate(dp) = Null THEN HojeIso ELSE ParseDate(dp)
      data_vencimento == IF ParseDate(dv) = Null THEN data_pagamento ELSE ParseDate(dv)
      usuario_id_raw == Get(payload, "usuario_id")
      usuario_uuid == IF Truthy(usuario_id_raw) /\ IsUUID(usuario_id_raw)
                      THEN ParseUUID(usuario_id_raw) ELSE Null
      err == tipo = "" \/ categoria = "" \/ descricao = "" \/ ~IsFloat(valor)
             \/ DateRaises(dp) \/ DateRaises(dv)
  IN [status |-> IF err THEN 400 ELSE 0,
      obj |-> IF err THEN NoPayload
              ELSE [tipo |-> tipo, categoria |-> categoria, descricao |-> descricao,
                    valor |-> ParseFloat(valor),
                    status |-> IF Truthy(Get(payload, "status"))
                               THEN Get(payload, "status") ELSE "Pago",
                    data_pagamento |-> data_pagamento,
                    data_vencimento |-> data_vencimento,
                    usuario_id |-> usuario_uuid,
                    fechada |-> Truthy(Get(payload, "fechada"))]]

\* "k in payload and payload[k] is not None"
Given(payload, k) == k \in DOMAIN payload /\ payload[k] # Null

\* lines 188-206 of atualizar_despesa on the loaded object obj: the object
\* as assigned in memory up to the first rejected field, the attributes
\* assigned, and the status raised, or 0
Patch(obj, payload) ==
  LET texts == {k \in {"tipo", "categoria", "descricao"} : Given(payload, k)}
      o1 == [k \in DOMAIN obj |-> IF k \in texts THEN Strip(payload[k]) ELSE obj[k]]
      bad_valor == Given(payload, "valor") /\ ~IsFloat(payload["valor"])
      o2 == IF Given(payload, "valor") /\ ~bad_valor
            THEN [o1 EXCEPT !["valor"] = ParseFloat(payload["valor"])] ELSE o1
      st == Given(payload, "status")
      o3 == IF st THEN [o2 EXCEPT !["status"] = Strip(payload["status"])] ELSE o2
      has_dp == "data_pagamento" \in DOMAIN payload
      bad_dp == has_dp /\ DateRaises(payload["data_pagamento"])
      o4 == IF has_dp /\ ~bad_dp
            THEN [o3 EXCEPT !["data_pagamento"] = ParseDate(payload["data_pagamento"])]
            ELSE o3
      has_dv == "data_vencimento" \in DOMAIN payload
      bad_dv == has_dv /\ DateRaises(payload["data_vencimento"])
      o5 == IF has_dv /\ ~bad_dv
            THEN [o4 EXCEPT !["data_vencimento"] = ParseDate(payload["data_vencimento"])]
            ELSE o4
      has_f == "fechada" \in DOMAIN payload
      o6 == IF has_f THEN [o5 EXCEPT !["fechada"] = Truthy(payload["fechada"])] ELSE o5
  IN IF bad_valor THEN [status |-> 400, obj |-> o1, dirty |-> texts]
     ELSE IF bad_dp
     THEN [status |-> 400, obj |-> o3,
           dirty |-> texts \cup (IF Given(payload, "valor") THEN {"valor"} ELSE {})
                           \cup (IF st THEN {"status"} ELSE {})]
     ELSE IF bad_dv
     THEN [status |-> 400, obj |-> o4,
           dirty |-> texts \cup (IF Given(payload, "valor") THEN {"valor"} ELSE {})
                           \cup (IF st THEN {"status"} ELSE {})
                           \cup (IF has_dp THEN {"data_pagamento"} ELSE {})]
     ELSE [status |-> 0, obj |-> o6,
           dirty |-> texts \cup (IF Given(payload, "valor") THEN {"valor"} ELSE {})
                           \cup (IF st THEN {"status"} ELSE {})
                           \cup ({"data_pagamento", "data_vencimento", "fechada"}
                                   \cap DOMAIN payload)]

\* the request of slot h starts op with path id and body payload
Started(h, op, id, payload) ==
  [HIdle EXCEPT !.op = op, !.id = id, !.payload = payload]

\* the payloads the clients send to criar_despesa
CriarBase ==
  [tipo |-> " fixo ", categoria |-> "agua", descricao |-> "conta",
   valor |-> "12.50"]
CriarInputs ==
  {CriarBase @@ [usuario_id |-> "u1"],
   CriarBase @@ [usuario_id |-> "xyz"],
   [categoria |-> "agua", descricao |-> "conta", valor |-> "7"],
   [CriarBase EXCEPT !.valor = "abc"]}

\* lines 125-170: validate the payload; 400, or build the object and issue
\* the commit
CriarDespesa(h, payload) ==
  /\ CanStartH(h)
  /\ LET r == Criar(payload)
     IN IF r.status # 0
        THEN /\ hout' = [op |-> "criar_despesa", status |-> r.status, id |-> "",
                         payload |-> payload, body |-> NoPayload]
             /\ hreq' = [hreq EXCEPT ![h] = HDone]
        ELSE /\ hreq' = [hreq EXCEPT ![h] =
                           [Started(h, "criar_despesa", "", payload)
                              EXCEPT !.pc = "ins_commit", !.obj = r.obj]]
             /\ hout' = hout
  /\ UNCHANGED <<mvars, cvars, despesas, categorias>>

\* lines 170-173: the insert is committed and the new row returned
InsCommit(h) ==
  /\ hreq[h].pc = "ins_commit"
  /\ LET row == [id |-> NewId] @@ hreq[h].obj
     IN /\ despesas' = despesas \cup {row}
        /\ Respond(h, 200, row)
  /\ UNCHANGED <<mvars, cvars, categorias>>

\* the ids and payloads the clients send to atualizar_despesa
AtualizarInputs ==
  {<<"d1", [categoria |-> " luz "]>>,
   <<"D1", [tipo |-> "var", valor |-> "abc"]>>,
   <<"d1", [descricao |-> "jan", data_pagamento |-> "2025-02-30"]>>,
   <<"d1", [valor |-> "7", fechada |-> "true", data_vencimento |-> ""]>>,
   <<"xyz", [categoria |-> " luz "]>>,
   <<"d9", [categoria |-> " luz "]>>}

\* lines 178-183: parse the id; 400, or issue the select
AtualizarDespesa(h, id, payload) ==
  /\ CanStartH(h)
  /\ IF ~IsUUID(id)
     THEN /\ hout' = [op |-> "atualizar_despesa", status |-> 400, id |-> id,
                      payload |-> payload, body |-> NoPayload]
          /\ hreq' = [hreq EXCEPT ![h] = HDone]
     ELSE /\ hreq' = [hreq EXCEPT ![h] =
                        [Started(h, "atualizar_despesa", id, payload)
                           EXCEPT !.pc = "upd_select"]]
          /\ hout' = hout
  /\ UNCHANGED <<mvars, cvars, despesas, categorias>>

\* the row as the UPDATE of the flush leaves it: the assigned attributes
\* take the values of the object
Written(row, obj, dirty) ==
  [k \in DOMAIN row |-> IF k \in dirty THEN obj[k] ELSE row[k]]

\* the dependency that gave the handler of slot h its session ends after
\* the handler raised: the session is closed without a commit, and what the
\* handler assigned to loaded objects is dropped
CloseSession(h) == despesas' = despesas

\* UpdSelect with a session that flushes the assigned attributes before the
\* handler raises
UpdSelectAutoflush(h) ==
  /\ hreq[h].pc = "upd_select"
  /\ LET found == RowOf(ParseUUID(hreq[h].id))
     IN IF found = {}
        THEN Respond(h, 404, NoPayload) /\ CloseSession(h)
        ELSE LET row == CHOOSE d \in found : TRUE
                 r == Patch(row, hreq[h].payload)
             IN IF r.status # 0
                THEN /\ Respond(h, r.status, NoPayload)
                     /\ despesas' = (despesas \ {row})
                                      \cup {Written(row, r.obj, r.dirty)}
                ELSE /\ hreq' = [hreq EXCEPT ![h].pc = "upd_commit",
                                            ![h].obj = r.obj,
                                            ![h].dirty = r.dirty]
                     /\ hout' = hout
                     /\ despesas' = despesas
  /\ UNCHANGED <<mvars, cvars, categorias>>

\* lines 183-208, with the select returned: 404 when no row has the id; else
\* assign the fields of the payload to the loaded object, 400 at the first
\* rejected one (autoflush is off: nothing was written), else issue the
\* commit
UpdSelect(h) ==
  /\ hreq[h].pc = "upd_select"
  /\ LET found == RowOf(ParseUUID(hreq[h].id))
     IN IF found = {}
        THEN Respond(h, 404, NoPayload) /\ CloseSession(h)
        ELSE LET r == Patch(CHOOSE d \in found : TRUE, hreq[h].payload)
             IN IF r.status # 0
                THEN Respond(h, r.status, NoPayload) /\ CloseSession(h)
                ELSE /\ hreq' = [hreq EXCEPT ![h].pc = "upd_commit",
                                            ![h].obj = r.obj,
                                            ![h].dirty = r.dirty]
                     /\ hout' = hout
                     /\ despesas' = despesas
  /\ UNCHANGED <<mvars, cvars, categorias>>

\* UpdCommit with a flush that writes every attribute of the object as the
\* session holds it
UpdCommitWholeRow(h) ==
  /\ hreq[h].pc = "upd_commit"
  /\ LET found == RowOf(hreq[h].obj.id)
     IN IF found = {}
        THEN /\ despesas' = despesas
             /\ Respond(h, 500, NoPayload)
        ELSE LET row == CHOOSE d \in found : TRUE
                 new == Written(row, hreq[h].obj, DOMAIN row)
             IN /\ despesas' = (despesas \ {row}) \cup {new}
                /\ Respond(h, 200, new)
  /\ UNCHANGED <<mvars, cvars, categorias>>

\* lines 208-210: the flush updates the row by primary key and the commit
\* makes it durable; the row as stored then is returned. With the row gone
\* meanwhile the flush raises
UpdCommit(h) ==
  /\ hreq[h].pc = "upd_commit"
  /\ LET found == RowOf(hreq[h].obj.id)
     IN IF found = {}
        THEN /\ despesas' = despesas
             /\ Respond(h, 500, NoPayload)
        ELSE LET row == CHOOSE d \in found : TRUE
                 new == Written(row, hreq[h].obj, hreq[h].dirty)
             IN /\ despesas' = (despesas \ {row}) \cup {new}
                /\ Respond(h, 200, new)
  /\ UNCHANGED <<mvars, cvars, categorias>>

\* the ids the clients send to excluir_despesa
ExcluirInputs == {"d1", "xyz", "d9"}

\* lines 215-220: parse the id; 400, or issue the select
ExcluirDespesa(h, id) ==
  /\ CanStartH(h)
  /\ IF ~IsUUID(id)
     THEN /\ hout' = [op |-> "excluir_despesa", status |-> 400, id |-> id,
                      payload |-> NoPayload, body |-> NoPayload]
          /\ hreq' = [hreq EXCEPT ![h] = HDone]
     ELSE /\ hreq' = [hreq EXCEPT ![h] =
                        [Started(h, "excluir_despesa", id, NoPayload)
                           EXCEPT !.pc = "del_select"]]
          /\ hout' = hout
  /\ UNCHANGED <<mvars, cvars, despesas, categorias>>

\* lines 220-225: 404 when no row has the id, else mark it deleted
DelSelect(h) ==
  /\ hreq[h].pc = "del_select"
  /\ LET found == RowOf(ParseUUID(hreq[h].id))
     IN IF found = {}
        THEN Respond(h, 404, NoPayload) /\ CloseSession(h)
        ELSE /\ hreq' = [hreq EXCEPT ![h].pc = "del_commit",
                                    ![h].obj = CHOOSE d \in found : TRUE]
             /\ hout' = hout
             /\ despesas' = despesas
  /\ UNCHANGED <<mvars, cvars, categorias>>

\* lines 225-227: the flush deletes the row by primary key and the commit
\* makes it durable. With the row gone meanwhile the DELETE matches nothing,
\* which the session only warns about
DelCommit(h) ==
  /\ hreq[h].pc = "del_commit"
  /\ despesas' = despesas \ RowOf(hreq[h].obj.id)
  /\ Respond(h, 200, [ok |-> "true"])
  /\ UNCHANGED <<mvars, cvars, categorias>>

DespesaInit ==
  /\ MetricsInit
  /\ stored = NoRows /\ conn = NoConn /\ script = NotRun /\ antes = NoRows
  /\ despesas = {Despesa1, Despesa2}
  /\ categorias = {}
  /\ hreq = [h \in Slots |-> HIdle]
  /\ hout = NoResp

DespesaNext ==
  \/ \E h \in Slots : \E payload \in CriarInputs : CriarDespesa(h, payload)
  \/ \E h \in Slots : InsCommit(h)
  \/ \E h \in Slots : \E a \in AtualizarInputs : AtualizarDespesa(h, a[1], a[2])
  \/ \E h \in Slots : UpdSelect(h)
  \/ \E h \in Slots : UpdCommit(h)
  \/ \E h \in Slots : \E id \in ExcluirInputs : ExcluirDespesa(h, id)
  \/ \E h \in Slots : DelSelect(h)
  \/ \E h \in Slots : DelCommit(h)

DespesaSpec == DespesaInit /\ [][DespesaNext]_vars

\* the answered request carried a malformed UUID, lacked a required field
\* or carried an unparsable amount
Malformed(resp) ==
  IF resp.op = "criar_despesa"
  THEN \/ \E k \in {"tipo", "categoria", "descricao"} :
            Strip(OrEmpty(Get(resp.payload, k))) = ""
       \/ ~IsFloat(Get(resp.payload, "valor"))
       \/ /\ Truthy(Get(resp.payload, "usuario_id"))
          /\ ~IsUUID(Get(resp.payload, "usuario_id"))
  ELSE IF resp.op = "atualizar_despesa"
  THEN \/ ~IsUUID(resp.id)
       \/ Given(resp.payload, "valor") /\ ~IsFloat(resp.payload["valor"])
  ELSE IF resp.op = "excluir_despesa"
  THEN ~IsUUID(resp.id)
  ELSE FALSE

\* C22: an expense request with a malformed UUID (the path id of update and
\* delete, the usuario_id of create), a missing tipo, categoria or descricao,
\* or an unparsable valor is answered with a 4xx status
C22_MalformedInputIs4xx ==
  Malformed(hout) => hout.status \in 400..499

\* the request of slot h is an update or a delete that this step answers
Answers(h) ==
  /\ hreq[h].pc # "done" /\ hreq'[h].pc = "done"
  /\ hout'.op \in {"atualizar_despesa", "excluir_despesa"}

C24_UpdateChangesOnlyPayloadFields ==
  [][\A h \in Slots :
       (/\ hreq[h].pc = "upd_commit" /\ hreq'[h].pc = "done"
        /\ hout'.status = 200)
       => LET did == hreq[h].obj.id
              after == {d \in despesas' : d.id = did}
          IN /\ despesas' \ after = despesas \ RowOf(did)
             /\ Cardinality(after) = 1
             /\ \A b \in RowOf(did) : \A a \in after :
                  \A k \in (DOMAIN b) \ (DOMAIN hreq[h].payload) :
                    a[k] = b[k]]_vars

\* an update carrying only categoria succeeded on an expense whose valor
\* another update had changed: the expense has the new categoria, the valor
\* of the other update and its other first values, and the other expense
\* is as it was
C24_Witness ==
  /\ hout.op = "atualizar_despesa" /\ hout.status = 200
  /\ DOMAIN hout.payload = {"categoria"}
  /\ hout.body \in despesas
  /\ hout.body.id = "d1"
  /\ hout.body.categoria = "luz" /\ Despesa1.categoria # "luz"
  /\ hout.body.valor = "7.0" /\ Despesa1.valor # "7.0"
  /\ hout.body.tipo = Despesa1.tipo
  /\ hout.body.descricao = Despesa1.descricao
  /\ Despesa2 \in despesas
====
